---- MODULE Spec2Model ----
(***************************************************************************)
(* examples/native-cmake/native/src/mylib.h as it is translated: a         *)
(* translation unit includes the header, the preprocessor executes its     *)
(* directives line by line and passes its text lines on, the parser reads  *)
(* the passed text, the library's translation unit is linked into a        *)
(* dynamic library, and a consumer looks the symbol up by name and calls   *)
(* it.                                                                     *)
(***************************************************************************)
EXTENDS Integers, Sequences, FiniteSets, TLC

\* ---------------------------------------------------------------- bounds
MaxIncludes == 3
MaxCalls == 2

\* ------------------------------------------------------- the int of line 10
INT_MAX == 2147483647
INT_MIN == -INT_MAX - 1
InIntRange(n) == INT_MIN <= n /\ n <= INT_MAX
\* Whether a + b leaves int, decided without forming the sum.
SumOverflows(a, b) ==
  \/ b > 0 /\ a > INT_MAX - b
  \/ b < 0 /\ a < INT_MIN - b
\* The sample pairs (2, 3) and (-1, 1), and INT_MAX for sums that leave int.
ArgValues == {-1, 1, 2, 3, INT_MAX}

\* ------------------------------------------------------------- the header
HeaderFile == "mylib.h"
\* A header that tests the compiler instead of the platform.
CondMacroCompiler == "_MSC_VER"
\* line 3: #ifdef _WIN32
CondMacro == "_WIN32"
ExportMacro == "MYLIB_EXPORT"
\* line 4: the replacement list of MYLIB_EXPORT in the #ifdef group
ExportWin == "__declspec(dllexport)"
\* A header whose #else group defines MYLIB_EXPORT as nothing.
ExportElseEmpty == ""
\* line 6: the replacement list of MYLIB_EXPORT in the #else group
ExportElse == "__attribute__((visibility(\"default\")))"
\* A header whose block gives C++ linkage.
LinkageSpecCpp == "C++"
\* line 9: the string literal of the linkage specification
LinkageSpec == "C"
\* A declaration that returns nothing, and one that takes a single int.
DeclReturnVoid == "void"
DeclParamsOne == <<"int">>
\* line 10: the declaration
DeclName == "mylib_add"
DeclReturn == "int"
DeclParams == <<"int", "int">>

\* The text lines of the header (9 to 11), before macro replacement.
HeaderLine(n) ==
  CASE n = 9 -> [kind |-> "linkage_open", spec |-> LinkageSpec]
    [] n = 10 -> [kind |-> "decl", attr |-> ExportMacro, ret |-> DeclReturn,
                  name |-> DeclName, params |-> DeclParams]
    [] n = 11 -> [kind |-> "linkage_close"]

\* --------------------------------------------------------- the environment
\* The toolchains the header's #ifdef tells apart, with what each predefines.
Toolchains == {"msvc", "mingw", "gcc-linux", "clang-macos"}
PlatformMacros(tc) ==
  CASE tc = "msvc" -> {"_WIN32", "_MSC_VER"}
    [] tc = "mingw" -> {"_WIN32", "__GNUC__"}
    [] tc = "gcc-linux" -> {"__GNUC__", "__linux__"}
    [] tc = "clang-macos" -> {"__GNUC__", "__APPLE__"}
Predefined(tc, l) == PlatformMacros(tc) \cup (IF l = "cpp" THEN {"__cplusplus"} ELSE {})
IsWindows(tc) == "_WIN32" \in PlatformMacros(tc)

VARIABLES
  toolchain,     \* the toolchain translating the unit
  lang,          \* "c" or "cpp": the language of the including unit
  role,          \* "lib": the library's own unit; "consumer": a unit using it
  hiddenDefault, \* the unit is compiled with -fvisibility=hidden
  phase,         \* preprocess, parse, compiled, loaded, done, failed
  pc,            \* the header line the preprocessor is at; 0: outside the header
  includes,      \* #include "mylib.h" directives met so far
  onceFiles,     \* files marked #pragma once
  macros,        \* the macro table: name -> replacement list
  defineCount,   \* #define MYLIB_EXPORT directives executed
  diags,         \* diagnostics issued
  out,           \* the preprocessed text passed to the parser
  ppos,          \* the parser's position in out
  linkage,       \* the stack of open linkage specifications
  decls,         \* the functions the parser has declared
  symtab,        \* the dynamic library's exported symbols
  resolved,      \* the result of the lookup by name
  libState,      \* what the library keeps between calls
  calls          \* the calls made, in order

vars == <<toolchain, lang, role, hiddenDefault, phase, pc, includes, onceFiles,
          macros, defineCount, diags, out, ppos, linkage, decls, symtab,
          resolved, libState, calls>>

env == <<toolchain, lang, role, hiddenDefault>>
prep == <<pc, includes, onceFiles, macros, defineCount, out>>
parse == <<ppos, linkage, decls>>
run == <<symtab, resolved, libState, calls>>

InitLibState == 0

Init ==
  /\ toolchain \in Toolchains
  /\ role \in {"lib", "consumer"}
  /\ lang \in (IF role = "lib" THEN {"cpp"} ELSE {"c", "cpp"})
  /\ hiddenDefault \in BOOLEAN
  /\ phase = "preprocess"
  /\ pc = 0
  /\ includes = 0
  /\ onceFiles = {}
  /\ macros = [m \in Predefined(toolchain, lang) |-> "1"]
  /\ defineCount = 0
  /\ diags = {}
  /\ out = <<>>
  /\ ppos = 1
  /\ linkage = <<>>
  /\ decls = {}
  /\ symtab = {}
  /\ resolved = "unresolved"
  /\ libState = InitLibState
  /\ calls = <<>>

\* ----------------------------------------------------------- preprocessing
IsDefined(m) == m \in DOMAIN macros
\* Macro replacement of one identifier.
Expand(tok) == IF IsDefined(tok) THEN macros[tok] ELSE tok
ExpandLine(l) == IF l.kind = "decl" THEN [l EXCEPT !.attr = Expand(l.attr)] ELSE l

\* #define name body
Define(name, body) ==
  /\ macros' = [m \in DOMAIN macros \cup {name} |-> IF m = name THEN body ELSE macros[m]]
  /\ defineCount' = IF name = ExportMacro THEN defineCount + 1 ELSE defineCount
  /\ diags' = IF IsDefined(name) /\ macros[name] # body
              THEN diags \cup {"macro redefined"} ELSE diags

\* The unit's #include "mylib.h": a file marked once is not read again.
Include ==
  /\ phase = "preprocess" /\ pc = 0 /\ includes < MaxIncludes
  /\ includes' = includes + 1
  /\ pc' = IF HeaderFile \in onceFiles THEN 0 ELSE 1
  /\ UNCHANGED <<env, phase, onceFiles, macros, defineCount, diags, out, parse, run>>

\* A header without its #pragma once: the file is read on and never marked.
PragmaOnceDropped ==
  /\ phase = "preprocess" /\ pc = 1
  /\ pc' = 3
  /\ UNCHANGED <<env, phase, includes, onceFiles, macros, defineCount, diags, out, parse, run>>

\* line 1: #pragma once
PragmaOnce ==
  /\ phase = "preprocess" /\ pc = 1
  /\ onceFiles' = onceFiles \cup {HeaderFile}
  /\ pc' = 3
  /\ UNCHANGED <<env, phase, includes, macros, defineCount, diags, out, parse, run>>

\* line 3: #ifdef _WIN32
IfdefWin32 ==
  /\ phase = "preprocess" /\ pc = 3
  /\ pc' = IF IsDefined(CondMacro) THEN 4 ELSE 6
  /\ UNCHANGED <<env, phase, includes, onceFiles, macros, defineCount, diags, out, parse, run>>

\* line 4: #define MYLIB_EXPORT __declspec(dllexport)
DefineExportWin ==
  /\ phase = "preprocess" /\ pc = 4
  /\ Define(ExportMacro, ExportWin)
  /\ pc' = 5
  /\ UNCHANGED <<env, phase, includes, onceFiles, out, parse, run>>

\* line 5: #else met at the end of the taken #ifdef group: skip to #endif
ElseDirective ==
  /\ phase = "preprocess" /\ pc = 5
  /\ pc' = 7
  /\ UNCHANGED <<env, phase, includes, onceFiles, macros, defineCount, diags, out, parse, run>>

\* line 6: #define MYLIB_EXPORT __attribute__((visibility("default")))
DefineExportElse ==
  /\ phase = "preprocess" /\ pc = 6
  /\ Define(ExportMacro, ExportElse)
  /\ pc' = 7
  /\ UNCHANGED <<env, phase, includes, onceFiles, out, parse, run>>

\* line 7: #endif
Endif ==
  /\ phase = "preprocess" /\ pc = 7
  /\ pc' = 9
  /\ UNCHANGED <<env, phase, includes, onceFiles, macros, defineCount, diags, out, parse, run>>

\* lines 9 to 11: a text line is macro-replaced and passed on
TextLine ==
  /\ phase = "preprocess" /\ pc \in {9, 10, 11}
  /\ out' = Append(out, ExpandLine(HeaderLine(pc)))
  /\ pc' = IF pc = 11 THEN 0 ELSE pc + 1
  /\ UNCHANGED <<env, phase, includes, onceFiles, macros, defineCount, diags, parse, run>>

\* The end of the unit's text: the parser takes over.
EndPreprocess ==
  /\ phase = "preprocess" /\ pc = 0 /\ includes >= 1
  /\ phase' = "parse"
  /\ UNCHANGED <<env, prep, diags, parse, run>>

\* ----------------------------------------------------------------- parsing
DefaultLinkage(l) == IF l = "cpp" THEN "C++" ELSE "C"
CurrentLinkage == IF linkage = <<>> THEN DefaultLinkage(lang) ELSE Head(linkage)
KnownAttrs == {ExportWin, ExportElse, ""}

\* line 9: extern "C" {   A linkage specification is C++ grammar only.
ParseLinkageOpen ==
  /\ phase = "parse" /\ ppos <= Len(out) /\ out[ppos].kind = "linkage_open"
  /\ IF lang = "cpp"
     THEN /\ linkage' = <<out[ppos].spec>> \o linkage
          /\ ppos' = ppos + 1
          /\ UNCHANGED <<phase, diags>>
     ELSE /\ diags' = diags \cup {"expected identifier before string constant"}
          /\ phase' = "failed"
          /\ UNCHANGED <<linkage, ppos>>
  /\ UNCHANGED <<env, prep, decls, run>>

\* line 10: MYLIB_EXPORT int mylib_add(int a, int b);
ParseDecl ==
  /\ phase = "parse" /\ ppos <= Len(out) /\ out[ppos].kind = "decl"
  /\ IF out[ppos].attr \in KnownAttrs
     THEN /\ decls' = decls \cup {[name |-> out[ppos].name, ret |-> out[ppos].ret,
                                   params |-> out[ppos].params, attr |-> out[ppos].attr,
                                   linkage |-> CurrentLinkage]}
          /\ ppos' = ppos + 1
          /\ UNCHANGED <<phase, diags>>
     ELSE /\ diags' = diags \cup {"unknown type name"}
          /\ phase' = "failed"
          /\ UNCHANGED <<decls, ppos>>
  /\ UNCHANGED <<env, prep, linkage, run>>

\* line 11: }
ParseLinkageClose ==
  /\ phase = "parse" /\ ppos <= Len(out) /\ out[ppos].kind = "linkage_close"
  /\ linkage # <<>>
  /\ linkage' = Tail(linkage)
  /\ ppos' = ppos + 1
  /\ UNCHANGED <<env, phase, prep, diags, decls, run>>

EndParse ==
  /\ phase = "parse" /\ ppos > Len(out)
  /\ phase' = IF role = "lib" THEN "compiled" ELSE "done"
  /\ UNCHANGED <<env, prep, diags, parse, run>>

\* ----------------------------------------------------------------- linking
ParamCode(t) == IF t = "int" THEN "i" ELSE "l"
MsvcCode(t) == IF t = "int" THEN "H" ELSE "J"
RECURSIVE Codes(_, _)
Codes(ps, msvc) ==
  IF ps = <<>> THEN ""
  ELSE (IF msvc THEN MsvcCode(Head(ps)) ELSE ParamCode(Head(ps))) \o Codes(Tail(ps), msvc)

\* The symbol name of a declared function: its own name under C linkage, the
\* toolchain's C++ mangling otherwise.
LinkerName(d, tc) ==
  IF d.linkage = "C" THEN d.name
  ELSE IF tc = "msvc"
       THEN "?" \o d.name \o "@@YA" \o MsvcCode(d.ret) \o Codes(d.params, TRUE) \o "@Z"
       ELSE "_Z" \o ToString(Len(d.name)) \o d.name \o Codes(d.params, FALSE)

\* Whether the declaration's annotation puts the symbol in the export table.
IsExported(d, tc, hidden) ==
  IF IsWindows(tc) THEN d.attr = ExportWin
  ELSE d.attr = ExportElse \/ ~hidden

Link ==
  /\ phase = "compiled"
  /\ symtab' = {[name |-> LinkerName(d, toolchain), func |-> d.name] :
                  d \in {e \in decls : IsExported(e, toolchain, hiddenDefault)}}
  /\ phase' = "loaded"
  /\ UNCHANGED <<env, prep, diags, parse, resolved, libState, calls>>

\* ------------------------------------------------------- lookup and calls
LookupName == "mylib_add"

\* dlsym / GetProcAddress by the literal name
Lookup ==
  /\ phase = "loaded" /\ resolved = "unresolved"
  /\ resolved' = IF \E s \in symtab : s.name = LookupName THEN "found" ELSE "missing"
  /\ UNCHANGED <<env, phase, prep, diags, parse, symtab, libState, calls>>

\* What an overflowing sum may come back as: the declaration leaves it open.
UnspecifiedInts == {INT_MIN, -1, 0, INT_MAX}

\* A function that keeps a running count and adds it in.
mylib_add_counting(a, b, st) ==
  {[ret |-> IF SumOverflows(a, b) \/ SumOverflows(a + b, st) THEN INT_MAX ELSE a + b + st,
    st |-> st + 1]}

\* The function behind the declaration: the outcomes of one call, as pairs of
\* returned value and the state the library is left in.
mylib_add(a, b, st) ==
  {[ret |-> r, st |-> st] :
     r \in (IF SumOverflows(a, b) THEN UnspecifiedInts ELSE {a + b})}

TheDecl == CHOOSE d \in decls : d.name = LookupName

\* A call through the resolved symbol, typed by the declaration.
Call ==
  /\ phase = "loaded" /\ resolved = "found" /\ Len(calls) < MaxCalls
  /\ \E a \in ArgValues, b \in ArgValues :
       /\ Len(TheDecl.params) = 2
       /\ \E o \in mylib_add(a, b, libState) :
            /\ calls' = Append(calls,
                 [a |-> a, b |-> b, st |-> libState,
                  outcome |-> IF TheDecl.ret = "int" THEN "returned int" ELSE "returned " \o TheDecl.ret,
                  ret |-> o.ret])
            /\ libState' = o.st
  /\ UNCHANGED <<env, phase, prep, diags, parse, symtab, resolved>>

Next ==
  \/ Include
  \/ PragmaOnce
  \/ IfdefWin32
  \/ DefineExportWin
  \/ ElseDirective
  \/ DefineExportElse
  \/ Endif
  \/ TextLine
  \/ EndPreprocess
  \/ ParseLinkageOpen
  \/ ParseDecl
  \/ ParseLinkageClose
  \/ EndParse
  \/ Link
  \/ Lookup
  \/ Call

Spec == Init /\ [][Next]_vars

\* ------------------------------------------------------------------ claims
\* The preprocessor has passed the header's conditional group.
PastConditional == pc \in {7, 9, 10, 11} \/ (pc = 0 /\ includes >= 1)
\* The declarations of mylib_add in the preprocessed text.
DeclLines == {i \in DOMAIN out : out[i].kind = "decl"}

\* C1: on every platform MYLIB_EXPORT is defined and expands to an export
\* annotation (never to nothing), the declaration of mylib_add carries it, and
\* the library's symbol table holds the symbol of mylib_add, which a lookup
\* finds.
C1_ExportedOnEveryPlatform ==
  /\ PastConditional => IsDefined("MYLIB_EXPORT") /\ macros["MYLIB_EXPORT"] # ""
  /\ \A i \in DeclLines : out[i].attr \notin {"", "MYLIB_EXPORT"}
  /\ \A d \in decls : d.attr # ""
  /\ phase = "loaded" => \E s \in symtab : s.func = "mylib_add"
  /\ resolved # "missing"

\* The library was built with hidden default visibility, where only the
\* annotation exports the symbol, and the lookup found it.
C1_Witness == phase = "loaded" /\ hiddenDefault /\ resolved = "found"

\* C2: the export mechanism is __declspec(dllexport) exactly when _WIN32 is
\* defined and __attribute__((visibility("default"))) otherwise, whatever the
\* compiler, the language, the unit's role and its flags; only one of the two
\* #define lines is ever executed.
C2_MechanismByPlatformAlone ==
  LET mech == IF "_WIN32" \in PlatformMacros(toolchain)
              THEN "__declspec(dllexport)"
              ELSE "__attribute__((visibility(\"default\")))"
  IN /\ PastConditional => IsDefined("MYLIB_EXPORT") /\ macros["MYLIB_EXPORT"] = mech
     /\ \A i \in DeclLines : out[i].attr = mech
     /\ \A d \in decls : d.attr = mech
     /\ defineCount <= 1
     /\ pc = 4 => "_WIN32" \in PlatformMacros(toolchain)
     /\ pc = 6 => "_WIN32" \notin PlatformMacros(toolchain)

\* A Windows unit translated by a compiler that is not MSVC has declared the
\* function.
C2_Witness == toolchain = "mingw" /\ decls # {} /\ phase \in {"compiled", "done"}

\* C3: every declaration of mylib_add has C linkage, so the library exports it
\* under the literal name mylib_add on every toolchain and the lookup by that
\* name resolves.
C3_UnmangledName ==
  /\ \A d \in decls : d.linkage = "C"
  /\ phase = "loaded" => \E s \in symtab : s.name = "mylib_add" /\ s.func = "mylib_add"
  /\ resolved # "missing"

\* The lookup by the literal name has found the symbol of a library built by
\* a C++ unit.
C3_Witness == resolved = "found" /\ lang = "cpp" /\ toolchain = "msvc"

\* C4: the header declares one function, mylib_add, of signature
\* (int, int) -> int on both branches of the conditional, and the library
\* exports that function and nothing else.
C4_SoleInterface ==
  /\ \A d \in decls : d.name = "mylib_add" /\ d.ret = "int" /\ d.params = <<"int", "int">>
  /\ Cardinality(decls) <= 1
  /\ phase \in {"compiled", "loaded", "done"} => Cardinality(decls) = 1
  /\ phase = "loaded" => {s.func : s \in symtab} = {"mylib_add"} /\ Cardinality(symtab) = 1

\* A library built on the #else branch is loaded.
C4_Witness == phase = "loaded" /\ ~IsWindows(toolchain) /\ symtab # {}

C6_NoStateBetweenCalls ==
  /\ libState = 0
  /\ \A i \in DOMAIN calls : calls[i].st = 0
  /\ \A i, j \in DOMAIN calls :
       (calls[i].a = calls[j].a /\ calls[i].b = calls[j].b
          /\ ~SumOverflows(calls[i].a, calls[i].b))
       => calls[i].ret = calls[j].ret

\* The same call has been made twice in a row.
C6_Witness ==
  /\ Len(calls) = 2
  /\ calls[1].a = 2 /\ calls[1].b = 3
  /\ calls[2].a = 2 /\ calls[2].b = 3

\* C7: however often the unit includes the header, MYLIB_EXPORT is defined
\* once, no macro is redefined, and the preprocessed text holds the header's
\* three text lines once, with one declaration of mylib_add.
C7_IncludeIdempotent ==
  /\ defineCount <= 1
  /\ Cardinality(DeclLines) <= 1
  /\ Len(out) <= 3
  /\ "macro redefined" \notin diags
  /\ (pc = 0 /\ includes >= 1) =>
       /\ defineCount = 1
       /\ Cardinality(DeclLines) = 1
       /\ Len(out) = 3
       /\ onceFiles = {"mylib.h"}

\* The unit has included the header a second time or more and is back
\* outside it.
C7_Witness == includes >= 2 /\ pc = 0 /\ phase = "preprocess"

\* C8: a unit in C accepts the header as a unit in C++ does: no including
\* unit fails to translate.
C8_AcceptedByCAndCpp == phase # "failed"

====
